---- MODULE Spec2Model ----
(***************************************************************************)
(* Camera extrinsics (bsfm::CameraExtrinsics): one world-to-camera rigid   *)
(* transform [R | t] with mutators that act on the camera centre           *)
(* c = -R^T t.  Arithmetic is exact: scalars are integers, rotations are   *)
(* the quarter-turn rotations (signed permutation matrices, det = 1), so   *)
(* every product below is computed as the code computes it, without        *)
(* rounding.  Angles are counted in quarter turns (1 = pi/2).              *)
(***************************************************************************)
EXTENDS Integers, FiniteSets, Sequences, TLC

VARIABLES world_to_camera_, call, prev, run, swapped, is_default, fatal

vars == <<world_to_camera_, call, prev, run, swapped, is_default, fatal>>

(* ------------------------------ bounds --------------------------------- *)

\* The camera centre stays within |x|+|y|+|z| <= MaxCoord.
MaxCoord == 1

\* Length up to which a run of consecutive Translate calls is counted.
MaxRun == 2

(* --------------------- Eigen vectors and matrices ---------------------- *)

Dot(u, v) == u[1] * v[1] + u[2] * v[2] + u[3] * v[3]

VecAdd(u, v) == <<u[1] + v[1], u[2] + v[2], u[3] + v[3]>>

VecNeg(v) == <<0 - v[1], 0 - v[2], 0 - v[3]>>

Col(M, j) == <<M[1][j], M[2][j], M[3][j]>>

Transpose(M) == <<Col(M, 1), Col(M, 2), Col(M, 3)>>

MatVec(M, v) == <<Dot(M[1], v), Dot(M[2], v), Dot(M[3], v)>>

MatRow(A, B, i) == <<Dot(A[i], Col(B, 1)), Dot(A[i], Col(B, 2)), Dot(A[i], Col(B, 3))>>

MatMul(A, B) == <<MatRow(A, B, 1), MatRow(A, B, 2), MatRow(A, B, 3)>>

MatNeg(M) == <<VecNeg(M[1]), VecNeg(M[2]), VecNeg(M[3])>>

MatAdd(A, B) == <<VecAdd(A[1], B[1]), VecAdd(A[2], B[2]), VecAdd(A[3], B[3])>>

Det(M) ==
    M[1][1] * (M[2][2] * M[3][3] - M[2][3] * M[3][2])
  - M[1][2] * (M[2][1] * M[3][3] - M[2][3] * M[3][1])
  + M[1][3] * (M[2][1] * M[3][2] - M[2][2] * M[3][1])

I3 == <<<<1, 0, 0>>, <<0, 1, 0>>, <<0, 0, 1>>>>

Zero3 == <<0, 0, 0>>

Abs(x) == IF x < 0 THEN 0 - x ELSE x

Norm1(v) == Abs(v[1]) + Abs(v[2]) + Abs(v[3])

IsProperRotation(M) == MatMul(Transpose(M), M) = I3 /\ Det(M) = 1

(* ------------------- Transform3D (rigid transform) --------------------- *)

\* Default construction: the identity transform.
Transform3D == [R |-> I3, t |-> Zero3]

GetRotation(T) == T.R

GetTranslation(T) == T.t

T3SetRotation(T, rotation) == [T EXCEPT !.R = rotation]

T3SetTranslation(T, translation) == [T EXCEPT !.t = translation]

\* Closed-form rigid inverse: rotation R^T, translation -R^T t.
Inverse(T) == [R |-> Transpose(T.R), t |-> VecNeg(MatVec(Transpose(T.R), T.t))]

\* Transform applied to a 3-vector: R v + t.
Apply(T, v) == VecAdd(MatVec(T.R, v), T.t)

\* The augmented 3x4 matrix [R | t].
Dehomogenize(T) ==
    << <<T.R[1][1], T.R[1][2], T.R[1][3], T.t[1]>>,
       <<T.R[2][1], T.R[2][2], T.R[2][3], T.t[2]>>,
       <<T.R[3][1], T.R[3][2], T.R[3][3], T.t[3]>> >>

(* ----------------------- Euler-angle converter ------------------------- *)

Cos4(k) == <<1, 0, 0 - 1, 0>>[(k % 4) + 1]

Sin4(k) == <<0, 1, 0, 0 - 1>>[(k % 4) + 1]

RotX(k) == <<<<1, 0, 0>>, <<0, Cos4(k), 0 - Sin4(k)>>, <<0, Sin4(k), Cos4(k)>>>>

RotY(k) == <<<<Cos4(k), 0, Sin4(k)>>, <<0, 1, 0>>, <<0 - Sin4(k), 0, Cos4(k)>>>>

RotZ(k) == <<<<Cos4(k), 0 - Sin4(k), 0>>, <<Sin4(k), Cos4(k), 0>>, <<0, 0, 1>>>>

\* phi about X, theta about Y, psi about Z.
EulerAnglesToMatrix(phi, theta, psi) == MatMul(RotZ(psi), MatMul(RotY(theta), RotX(phi)))

(* ------------------- CameraExtrinsics: pure methods -------------------- *)
(* Every method is an operator from the stored transform T (the member     *)
(* world_to_camera_) and the arguments to the new stored transform or to   *)
(* the returned value.                                                     *)

CameraExtrinsics_offset == [R |-> I3, t |-> <<1, 0, 0>>]

\* CameraExtrinsics(): world_to_camera_ = Transform3D().
CameraExtrinsics == Transform3D

\* CameraExtrinsics(const Transform3D&).
CameraExtrinsicsFrom(world_to_camera) == world_to_camera

SetWorldToCamera(T, world_to_camera) == world_to_camera

WorldToCamera(T) == T

CameraToWorld(T) == Inverse(T)

SetRotation_overwrite(T, rotation) == T3SetRotation(T, rotation)

SetRotation(T, rotation) ==
    LET t == GetTranslation(T)
        R == GetRotation(T)
        c == VecNeg(MatVec(Transpose(R), t))
    IN  T3SetTranslation(T3SetRotation(T, rotation),
                         MatVec(MatNeg(rotation), c))

SetRotationEuler(T, phi, theta, psi) ==
    SetRotation(T, EulerAnglesToMatrix(phi, theta, psi))

Rotate_right(T, delta) == SetRotation(T, MatMul(GetRotation(T), delta))

Rotate_sum(T, delta) == SetRotation(T, MatAdd(delta, GetRotation(T)))

Rotate(T, delta) ==
    LET R == GetRotation(T)
    IN  SetRotation(T, MatMul(delta, R))

RotateEuler(T, dphi, dtheta, dpsi) ==
    Rotate(T, EulerAnglesToMatrix(dphi, dtheta, dpsi))

Rotation(T) == GetRotation(T)

SetTranslation_raw(T, translation) == T3SetTranslation(T, translation)

SetTranslation(T, translation) ==
    LET R == GetRotation(T)
    IN  T3SetTranslation(T, MatVec(MatNeg(R), translation))

SetTranslationXYZ(T, x, y, z) == SetTranslation(T, <<x, y, z>>)

Translate_lost(T, delta) ==
    T3SetTranslation(T, MatVec(MatNeg(GetRotation(T)), delta))

Translate_camera_frame(T, delta) ==
    T3SetTranslation(T, VecAdd(GetTranslation(T), VecNeg(delta)))

Translate(T, delta) ==
    LET t  == GetTranslation(T)
        R  == GetRotation(T)
        c0 == VecNeg(MatVec(Transpose(R), t))
        c  == VecAdd(c0, delta)
    IN  T3SetTranslation(T, MatVec(MatNeg(R), c))

TranslateXYZ(T, dx, dy, dz) == Translate(T, <<dx, dy, dz>>)

TranslateX(T, dx) == Translate(T, <<dx, 0, 0>>)

TranslateY(T, dy) == Translate(T, <<0, dy, 0>>)

TranslateZ(T, dz) == Translate(T, <<0, 0, dz>>)

Translation(T) ==
    LET t == GetTranslation(T)
        R == GetRotation(T)
    IN  VecNeg(MatVec(Transpose(R), t))

Rt_center(T) == Dehomogenize([R |-> GetRotation(T), t |-> Translation(T)])

Rt(T) == Dehomogenize(T)

(* Point overloads.  nulls is the set of output destinations (1, 2, 3 for  *)
(* the first, second, third pointer) that are null.  CHECK_NOTNULL runs on *)
(* each destination in turn and the first null one ends the process; only  *)
(* after the three checks is the point computed and the three              *)
(* destinations written.  The result records whether the process died,     *)
(* which destinations were written and with what.                          *)

\* CHECK_NOTNULL(p) passes when destination i is not null.
CHECK_NOTNULL(nulls, i) == i \notin nulls

Died == [fatal |-> TRUE, written |-> {}, out |-> Zero3]

Wrote(v) == [fatal |-> FALSE, written |-> {1, 2, 3}, out |-> v]

WorldToCameraPoint_skip(T, w, nulls) ==
    LET c == Apply(T, w)
    IN  [fatal |-> FALSE, written |-> {1, 2, 3} \ nulls,
         out |-> <<IF 1 \in nulls THEN 0 ELSE c[1],
                   IF 2 \in nulls THEN 0 ELSE c[2],
                   IF 3 \in nulls THEN 0 ELSE c[3]>>]

WorldToCameraPoint(T, w, nulls) ==
    IF ~CHECK_NOTNULL(nulls, 1) THEN Died
    ELSE IF ~CHECK_NOTNULL(nulls, 2) THEN Died
    ELSE IF ~CHECK_NOTNULL(nulls, 3) THEN Died
    ELSE LET c == Apply(T, w)
         IN  Wrote(<<c[1], c[2], c[3]>>)

CameraToWorldPoint_forward(T, c, nulls) == WorldToCameraPoint(T, c, nulls)

CameraToWorldPoint(T, c, nulls) ==
    IF ~CHECK_NOTNULL(nulls, 1) THEN Died
    ELSE IF ~CHECK_NOTNULL(nulls, 2) THEN Died
    ELSE IF ~CHECK_NOTNULL(nulls, 3) THEN Died
    ELSE LET w == Apply(CameraToWorld(T), c)
         IN  Wrote(<<w[1], w[2], w[3]>>)

(* ------------------------------ inputs --------------------------------- *)

RotationInputs == {RotX(1), RotY(1), RotZ(1), RotZ(3)}

\* Euler angle triples, in quarter turns.
AngleInputs == {<<0, 0, 1>>, <<1, 1, 0>>, <<0, 3, 2>>}

ScalarInputs == {0 - 1, 1}

RawInputs == {<<1, 0, 0>>, <<0, 0 - 1, 0>>}

TransformInputs == {[R |-> r, t |-> v] : r \in {RotX(1), RotZ(2)}, v \in RawInputs}

VectorInputs == {Zero3, <<1, 0, 0>>, <<0, 0 - 1, 0>>, <<0, 1, 1>>}

DeltaInputs == {<<1, 0, 0>>, <<0 - 1, 0, 0>>, <<0, 1, 0>>, <<0, 0, 1>>, <<0, 0 - 1, 1>>}

\* Argument triples of the (x, y, z) overloads.
TripleInputs == {<<0, 0, 1>>, <<0 - 1, 0, 0>>, <<0, 0 - 1, 1>>}

PointInputs == {<<1, 2, 3>>, <<0, 0 - 1, 0>>}

NullInputs == {{}, {1}, {2}, {3}, {1, 2, 3}}

(* ------------------------- bookkeeping records -------------------------- *)
(* call: the last call made on the object, with its arguments and what it  *)
(* returned or wrote.  prev: the stored transform before that call.        *)
(* run: over the current run of consecutive Translate calls, the centre    *)
(* before the run plus the deltas passed so far, and the run's length      *)
(* (counted up to MaxRun).  swapped: when the last two calls were a Rotate *)
(* and Translate(vector), in either order, the pose they started from      *)
(* and the transform the same two calls give from it in the other order.   *)

NoCall ==
    [name |-> "CameraExtrinsics", rot |-> I3, vec |-> Zero3, ang |-> Zero3,
     nulls |-> {}, written |-> {}, out |-> Zero3, died |-> FALSE,
     chained |-> FALSE, orig |-> Zero3, ret |-> Zero3]

Record(name) == [NoCall EXCEPT !.name = name]

NoRun == [expect |-> Zero3, n |-> 0]

NoSwap == [on |-> FALSE, from |-> Transform3D, rot |-> I3, vec |-> Zero3, T |-> Transform3D]

InBounds(T) == Norm1(Translation(T)) <= MaxCoord

Min(a, b) == IF a < b THEN a ELSE b

TranslateNames == {"Translate", "TranslateXYZ", "TranslateX", "TranslateY", "TranslateZ"}

TranslationMutators == TranslateNames \cup {"SetTranslation", "SetTranslationXYZ"}

PointNames == {"WorldToCameraPoint", "CameraToWorldPoint"}

(* ------------------------------- Init ---------------------------------- *)

Init ==
    /\ world_to_camera_ = CameraExtrinsics
    /\ call = NoCall
    /\ prev = CameraExtrinsics
    /\ run = NoRun
    /\ swapped = NoSwap
    /\ is_default = TRUE
    /\ fatal = FALSE

(* ------------------------------ actions -------------------------------- *)

\* What every mutator but the Translate family and Rotate(matrix) leaves behind.
Mutated(rec) ==
    /\ InBounds(world_to_camera_')
    /\ call' = rec
    /\ prev' = world_to_camera_
    /\ is_default' = FALSE
    /\ UNCHANGED fatal

\* A const method: the object is untouched.
Observed(rec) ==
    /\ call' = rec
    /\ prev' = world_to_camera_
    /\ run' = NoRun
    /\ swapped' = NoSwap
    /\ UNCHANGED <<world_to_camera_, is_default>>

CallCameraExtrinsics ==
    /\ ~fatal
    /\ world_to_camera_' = CameraExtrinsics
    /\ call' = NoCall
    /\ prev' = CameraExtrinsics
    /\ run' = NoRun
    /\ swapped' = NoSwap
    /\ is_default' = TRUE
    /\ UNCHANGED fatal

CallCameraExtrinsicsFrom ==
    \E world_to_camera \in TransformInputs :
        /\ ~fatal
        /\ world_to_camera_' = CameraExtrinsicsFrom(world_to_camera)
        /\ InBounds(world_to_camera_')
        /\ call' = [Record("CameraExtrinsicsFrom") EXCEPT !.ret = world_to_camera]
        /\ prev' = world_to_camera_'
        /\ run' = NoRun
        /\ swapped' = NoSwap
        /\ is_default' = FALSE
        /\ UNCHANGED fatal

CallSetWorldToCamera ==
    \E world_to_camera \in TransformInputs :
        /\ ~fatal
        /\ world_to_camera_' = SetWorldToCamera(world_to_camera_, world_to_camera)
        /\ Mutated([Record("SetWorldToCamera") EXCEPT !.ret = world_to_camera])
        /\ run' = NoRun
        /\ swapped' = NoSwap

CallWorldToCamera ==
    /\ ~fatal
    /\ Observed([Record("WorldToCamera") EXCEPT !.ret = WorldToCamera(world_to_camera_)])
    /\ UNCHANGED fatal

CallCameraToWorld ==
    /\ ~fatal
    /\ Observed([Record("CameraToWorld") EXCEPT !.ret = CameraToWorld(world_to_camera_)])
    /\ UNCHANGED fatal

CallSetRotation ==
    \E rotation \in RotationInputs :
        /\ ~fatal
        /\ world_to_camera_' = SetRotation(world_to_camera_, rotation)
        /\ Mutated([Record("SetRotation") EXCEPT !.rot = rotation])
        /\ run' = NoRun
        /\ swapped' = NoSwap

CallSetRotationEuler ==
    \E a \in AngleInputs :
        /\ ~fatal
        /\ world_to_camera_' = SetRotationEuler(world_to_camera_, a[1], a[2], a[3])
        /\ Mutated([Record("SetRotationEuler") EXCEPT !.ang = a])
        /\ run' = NoRun
        /\ swapped' = NoSwap

CallRotate ==
    \E delta \in RotationInputs :
        /\ ~fatal
        /\ world_to_camera_' = Rotate(world_to_camera_, delta)
        /\ Mutated([Record("Rotate") EXCEPT !.rot = delta])
        /\ run' = NoRun
        /\ swapped' =
              IF call.name = "Translate"
              THEN [on |-> TRUE, from |-> prev, rot |-> delta, vec |-> call.vec,
                    T |-> Translate(Rotate(prev, delta), call.vec)]
              ELSE NoSwap

CallRotateEuler ==
    \E a \in AngleInputs :
        /\ ~fatal
        /\ world_to_camera_' = RotateEuler(world_to_camera_, a[1], a[2], a[3])
        /\ Mutated([Record("RotateEuler") EXCEPT
                        !.ang = a, !.rot = EulerAnglesToMatrix(a[1], a[2], a[3])])
        /\ run' = NoRun
        /\ swapped' =
              IF call.name = "Translate"
              THEN [on |-> TRUE, from |-> prev,
                    rot |-> EulerAnglesToMatrix(a[1], a[2], a[3]), vec |-> call.vec,
                    T |-> Translate(RotateEuler(prev, a[1], a[2], a[3]), call.vec)]
              ELSE NoSwap

CallRotation ==
    /\ ~fatal
    /\ Observed([Record("Rotation") EXCEPT !.ret = Rotation(world_to_camera_)])
    /\ UNCHANGED fatal

CallSetTranslation ==
    \E translation \in VectorInputs :
        /\ ~fatal
        /\ world_to_camera_' = SetTranslation(world_to_camera_, translation)
        /\ Mutated([Record("SetTranslation") EXCEPT !.vec = translation])
        /\ run' = NoRun
        /\ swapped' = NoSwap

CallSetTranslationXYZ ==
    \E v \in TripleInputs :
        /\ ~fatal
        /\ world_to_camera_' = SetTranslationXYZ(world_to_camera_, v[1], v[2], v[3])
        /\ Mutated([Record("SetTranslationXYZ") EXCEPT !.vec = v])
        /\ run' = NoRun
        /\ swapped' = NoSwap

\* The run of Translate calls after one more call whose delta is d.
Ran(d) ==
    [expect |-> VecAdd(IF run.n = 0 THEN Translation(world_to_camera_) ELSE run.expect, d),
     n |-> Min(run.n + 1, MaxRun)]

CallTranslate ==
    \E delta \in DeltaInputs :
        /\ ~fatal
        /\ world_to_camera_' = Translate(world_to_camera_, delta)
        /\ Mutated([Record("Translate") EXCEPT !.vec = delta])
        /\ run' = Ran(delta)
        /\ swapped' =
              IF call.name \in {"Rotate", "RotateEuler"}
              THEN [on |-> TRUE, from |-> prev, rot |-> call.rot, vec |-> delta,
                    T |-> Rotate(Translate(prev, delta), call.rot)]
              ELSE NoSwap

CallTranslateXYZ ==
    \E v \in TripleInputs :
        /\ ~fatal
        /\ world_to_camera_' = TranslateXYZ(world_to_camera_, v[1], v[2], v[3])
        /\ Mutated([Record("TranslateXYZ") EXCEPT !.vec = v])
        /\ run' = Ran(v)
        /\ swapped' = NoSwap

CallTranslateX ==
    \E dx \in ScalarInputs :
        /\ ~fatal
        /\ world_to_camera_' = TranslateX(world_to_camera_, dx)
        /\ Mutated([Record("TranslateX") EXCEPT !.vec = <<dx, 0, 0>>])
        /\ run' = Ran(<<dx, 0, 0>>)
        /\ swapped' = NoSwap

CallTranslateY ==
    \E dy \in ScalarInputs :
        /\ ~fatal
        /\ world_to_camera_' = TranslateY(world_to_camera_, dy)
        /\ Mutated([Record("TranslateY") EXCEPT !.vec = <<0, dy, 0>>])
        /\ run' = Ran(<<0, dy, 0>>)
        /\ swapped' = NoSwap

CallTranslateZ ==
    \E dz \in ScalarInputs :
        /\ ~fatal
        /\ world_to_camera_' = TranslateZ(world_to_camera_, dz)
        /\ Mutated([Record("TranslateZ") EXCEPT !.vec = <<0, 0, dz>>])
        /\ run' = Ran(<<0, 0, dz>>)
        /\ swapped' = NoSwap

CallTranslation ==
    /\ ~fatal
    /\ Observed([Record("Translation") EXCEPT !.ret = Translation(world_to_camera_)])
    /\ UNCHANGED fatal

CallRt ==
    /\ ~fatal
    /\ Observed([Record("Rt") EXCEPT !.ret = Rt(world_to_camera_)])
    /\ UNCHANGED fatal

\* The record of a point-overload call with result res.
PointRecord(name, p, nulls, res, chained, orig) ==
    [Record(name) EXCEPT !.vec = p, !.nulls = nulls, !.written = res.written,
                         !.out = res.out, !.died = res.fatal,
                         !.chained = chained, !.orig = orig]

CallWorldToCameraPoint ==
    \E w \in PointInputs, nulls \in NullInputs :
        LET res == WorldToCameraPoint(world_to_camera_, w, nulls)
        IN  /\ ~fatal
            /\ Observed(PointRecord("WorldToCameraPoint", w, nulls, res, FALSE, Zero3))
            /\ fatal' = res.fatal

CallCameraToWorldPoint ==
    \E c \in {<<1, 2, 3>>}, nulls \in NullInputs :
        LET res == CameraToWorldPoint(world_to_camera_, c, nulls)
        IN  /\ ~fatal
            /\ Observed(PointRecord("CameraToWorldPoint", c, nulls, res, FALSE, Zero3))
            /\ fatal' = res.fatal

\* CameraToWorld on the point the preceding WorldToCamera call wrote.
CallCameraToWorldOfWritten ==
    \E nulls \in {{}, {2}} :
        LET res == CameraToWorldPoint(world_to_camera_, call.out, nulls)
        IN  /\ ~fatal
            /\ call.name = "WorldToCameraPoint"
            /\ call.written = {1, 2, 3}
            /\ Observed(PointRecord("CameraToWorldPoint", call.out, nulls, res, TRUE, call.vec))
            /\ fatal' = res.fatal

Next ==
    \/ CallCameraExtrinsics
    \/ CallCameraExtrinsicsFrom
    \/ CallSetWorldToCamera
    \/ CallWorldToCamera
    \/ CallCameraToWorld
    \/ CallSetRotation
    \/ CallSetRotationEuler
    \/ CallRotate
    \/ CallRotateEuler
    \/ CallRotation
    \/ CallSetTranslation
    \/ CallSetTranslationXYZ
    \/ CallTranslate
    \/ CallTranslateXYZ
    \/ CallTranslateX
    \/ CallTranslateY
    \/ CallTranslateZ
    \/ CallTranslation
    \/ CallRt
    \/ CallWorldToCameraPoint
    \/ CallCameraToWorldPoint
    \/ CallCameraToWorldOfWritten

Spec == Init /\ [][Next]_vars

TypeOK ==
    /\ fatal \in BOOLEAN
    /\ is_default \in BOOLEAN
    /\ run.n \in 0..MaxRun
    /\ InBounds(world_to_camera_)

(* ------------------------------ properties ----------------------------- *)

\* C1: after SetRotation(Rn) the camera centre Translation() is the one
\* before the call, and Rotation() is Rn.
SetRotationKeepsCenter ==
    call.name = "SetRotation" =>
        /\ Translation(world_to_camera_) = Translation(prev)
        /\ Rotation(world_to_camera_) = call.rot

SetRotationKeepsCenterWitness ==
    /\ call.name = "SetRotation"
    /\ Translation(prev) # Zero3
    /\ Rotation(prev) # call.rot
    /\ GetTranslation(world_to_camera_) # GetTranslation(prev)

\* C2: after SetTranslation(v) the accessor Translation() returns v and
\* Rotation() is the matrix it was before the call.
SetTranslationSetsCenter ==
    call.name = "SetTranslation" =>
        /\ Translation(world_to_camera_) = call.vec
        /\ Rotation(world_to_camera_) = Rotation(prev)

SetTranslationSetsCenterWitness ==
    /\ call.name = "SetTranslation"
    /\ call.vec # Zero3
    /\ Rotation(prev) # I3
    /\ GetTranslation(world_to_camera_) # call.vec

\* C3: after a run of Translate calls from a pose whose Translation() was
\* c0, Translation() is c0 plus the sum of the deltas passed.
TranslateAccumulates ==
    call.name \in TranslateNames => Translation(world_to_camera_) = run.expect

TranslateAccumulatesWitness ==
    /\ call.name = "Translate"
    /\ run.n >= 2
    /\ Rotation(world_to_camera_) # I3
    /\ Translation(prev) # Zero3
    /\ Translation(world_to_camera_) # Zero3
    /\ Translation(world_to_camera_) = run.expect

\* C4: after Rotate(D) the accessor Rotation() returns D * R_before and
\* Translation() returns the centre it returned before the call.
RotateLeftMultiplies ==
    call.name = "Rotate" =>
        /\ Rotation(world_to_camera_) = MatMul(call.rot, Rotation(prev))
        /\ Translation(world_to_camera_) = Translation(prev)

RotateLeftMultipliesWitness ==
    /\ call.name = "Rotate"
    /\ MatMul(call.rot, Rotation(prev)) # MatMul(Rotation(prev), call.rot)
    /\ Translation(prev) # Zero3
    /\ Rotation(world_to_camera_) = MatMul(call.rot, Rotation(prev))

\* C5: CameraToWorld on the point WorldToCamera(p) wrote gives p back, and
\* neither point conversion changes the stored transform.
PointRoundTrip ==
    /\ call.name \in PointNames => world_to_camera_ = prev
    /\ (call.name = "CameraToWorldPoint" /\ call.chained /\ ~call.died) =>
           /\ call.written = {1, 2, 3}
           /\ call.out = call.orig

PointRoundTripWitness ==
    /\ call.name = "CameraToWorldPoint"
    /\ call.chained
    /\ call.written = {1, 2, 3}
    /\ call.out = call.orig
    /\ call.vec # call.orig
    /\ Rotation(world_to_camera_) # I3
    /\ GetTranslation(world_to_camera_) # Zero3

\* C6: Rotate(D); Translate(d) and Translate(d); Rotate(D) end in the same
\* stored transform; from the identity pose, a quarter turn about Z and a
\* translation by (1,0,0), in either order, give Translation() = (1,0,0)
\* and Rotation() = the Z quarter-turn matrix.
RotateTranslateCommute ==
    swapped.on =>
        /\ world_to_camera_ = swapped.T
        /\ (/\ swapped.from = [R |-> I3, t |-> Zero3]
            /\ swapped.rot = <<<<0, 0 - 1, 0>>, <<1, 0, 0>>, <<0, 0, 1>>>>
            /\ swapped.vec = <<1, 0, 0>>) =>
               /\ Translation(world_to_camera_) = <<1, 0, 0>>
               /\ Rotation(world_to_camera_) = <<<<0, 0 - 1, 0>>, <<1, 0, 0>>, <<0, 0, 1>>>>

RotateTranslateCommuteWitness ==
    /\ swapped.on
    /\ call.name = "Translate"
    /\ swapped.from = [R |-> I3, t |-> Zero3]
    /\ swapped.rot = <<<<0, 0 - 1, 0>>, <<1, 0, 0>>, <<0, 0, 1>>>>
    /\ swapped.vec = <<1, 0, 0>>
    /\ Translation(world_to_camera_) = <<1, 0, 0>>

\* C7: a point overload called with a null output destination ends in the
\* fatal failure, writes no destination and leaves the stored transform.
NullOutputIsFatal ==
    (call.name \in PointNames /\ call.nulls # {}) =>
        /\ call.died
        /\ fatal
        /\ call.written = {}
        /\ world_to_camera_ = prev

NullOutputIsFatalWitness ==
    /\ call.name = "WorldToCameraPoint"
    /\ call.nulls = {2}
    /\ fatal
    /\ call.written = {}

\* C8: a default-constructed pose is the identity: WorldToCamera() and
\* CameraToWorld() are the identity transform, Translation() is (0,0,0)
\* and Rotation() is the identity matrix.
DefaultIsIdentity ==
    is_default =>
        /\ WorldToCamera(world_to_camera_) = [R |-> I3, t |-> Zero3]
        /\ CameraToWorld(world_to_camera_) = [R |-> I3, t |-> Zero3]
        /\ Translation(world_to_camera_) = Zero3
        /\ Rotation(world_to_camera_) = I3
        /\ call.name \in {"WorldToCamera", "CameraToWorld"} =>
               call.ret = [R |-> I3, t |-> Zero3]
        /\ call.name = "Translation" => call.ret = Zero3
        /\ call.name = "Rotation" => call.ret = I3

DefaultIsIdentityWitness ==
    /\ is_default
    /\ call.name = "CameraToWorld"
    /\ call.ret = [R |-> I3, t |-> Zero3]

\* C9: the first three columns of Rt() are Rotation(), its fourth column is
\* the raw stored translation, which is -Rotation() * Translation(), and
\* Rt() applied to (p, 1) is what the point overload WorldToCamera(p) writes.
RtOf == IF call.name = "Rt" THEN call.ret ELSE Rt(world_to_camera_)

RtIsRawTransform ==
    LET M == RtOf
        R == Rotation(world_to_camera_)
    IN  /\ \A i \in 1..3 : <<M[i][1], M[i][2], M[i][3]>> = R[i]
        /\ <<M[1][4], M[2][4], M[3][4]>> = GetTranslation(world_to_camera_)
        /\ <<M[1][4], M[2][4], M[3][4]>> = MatVec(MatNeg(R), Translation(world_to_camera_))
        /\ \A p \in PointInputs :
               <<M[1][1] * p[1] + M[1][2] * p[2] + M[1][3] * p[3] + M[1][4],
                 M[2][1] * p[1] + M[2][2] * p[2] + M[2][3] * p[3] + M[2][4],
                 M[3][1] * p[1] + M[3][2] * p[2] + M[3][3] * p[3] + M[3][4]>>
               = WorldToCameraPoint(world_to_camera_, p, {}).out

RtIsRawTransformWitness ==
    /\ call.name = "Rt"
    /\ Rotation(world_to_camera_) # I3
    /\ GetTranslation(world_to_camera_) # Zero3
    /\ GetTranslation(world_to_camera_) # Translation(world_to_camera_)
    /\ <<call.ret[1][4], call.ret[2][4], call.ret[3][4]>> = GetTranslation(world_to_camera_)

\* C10: the stored rotation is a proper rotation (R^T R = I, det R = 1) in
\* every reachable state, and the translation mutators leave it as it was.
RotationStaysProper ==
    /\ IsProperRotation(GetRotation(world_to_camera_))
    /\ call.name \in TranslationMutators =>
           GetRotation(world_to_camera_) = GetRotation(prev)

RotationStaysProperWitness ==
    /\ call.name \in TranslateNames
    /\ GetRotation(world_to_camera_) # I3
    /\ GetTranslation(world_to_camera_) # GetTranslation(prev)
    /\ IsProperRotation(GetRotation(world_to_camera_))

====
